---- MODULE Spec2Model ----
(***************************************************************************)
(* Model of tagger.py: Tag, MultiTag, Rater.__call__ and Tagger.__call__.  *)
(*                                                                         *)
(* Strings are sequences of one-character strings, so that ' '.join and    *)
(* str.split are modelled by what they do.                                 *)
(*                                                                         *)
(* Ratings are modelled exactly.  After the unit rating pass a unit tag's  *)
(* rating is (count / len(tags)) * weight; the model stores the numerator  *)
(* count * weight, the denominator len(tags) being the same for every unit *)
(* tag of one call.  A MultiTag of size s stores the product of s unit     *)
(* numerators; its denominator is len(tags) ** s.                          *)
(***************************************************************************)
EXTENDS Integers, Sequences, FiniteSets

\* ---------------------------------------------------------------- bounds
MaxTags == 3
MaxK == 3
MaxN == 2

\* ------------------------------------------------------ program constants
MinStringLen == 2

VARIABLES
    pc,             \* position in Tagger.__call__ / Rater.__call__
    err,            \* the exception that ended the call, "" when none
    tags,           \* the unit tags handed to the Rater
    weights,        \* the module global `weights` read at line 211
    self_weights,   \* Rater.weights, set by Rater.__init__
    multitag_size,  \* Rater.multitag_size
    multitags,      \* the candidate pool (a list)
    unique_tags,    \* the result set being filtered
    idx,            \* position of the filtering loop in multitags
    result,         \* the list returned by Rater.__call__
    rerun,          \* the list returned by a second run on the same input
    tags_number,    \* Tagger.__call__'s tags_number
    out             \* the list returned by Tagger.__call__

vars == <<pc, err, tags, weights, self_weights, multitag_size, multitags,
          unique_tags, idx, result, rerun, tags_number, out>>

\* ------------------------------------------------------------- strings
SP == " "

Min(a, b) == IF a < b THEN a ELSE b

\* ' '.join(parts)
RECURSIVE Join(_)
Join(parts) ==
    IF parts = <<>> THEN <<>>
    ELSE IF Len(parts) = 1 THEN parts[1]
    ELSE parts[1] \o <<SP>> \o Join(Tail(parts))

\* s.split(): the maximal runs of non-whitespace characters of s
RECURSIVE SplitFrom(_, _, _)
SplitFrom(s, k, word) ==
    IF k > Len(s) THEN (IF word = <<>> THEN <<>> ELSE <<word>>)
    ELSE IF s[k] = SP
         THEN (IF word = <<>> THEN <<>> ELSE <<word>>) \o SplitFrom(s, k + 1, <<>>)
         ELSE SplitFrom(s, k + 1, Append(word, s[k]))

Split(s) == SplitFrom(s, 1, <<>>)

\* words[i:i + j] of a Python list, i counted from 0
Slice(words, i, j) == SubSeq(words, i + 1, Min(i + j, Len(words)))

\* ---------------------------------------------------------------- Tag
\* Tag.__init__: stem defaults to string when it is None or empty
StemOr(stem, string) == IF stem = <<>> THEN string ELSE stem

StemA == <<"a">>
StemB == <<"b">>
StemAB == <<"a", SP, "b">>

\* The unit tags of the inputs: surfaces of one and two characters sharing a
\* stem, a second stem, and a stem that is not a single word.
TagPool ==
    { [string |-> str, stem |-> st, terminal |-> term] :
        str \in {<<"a">>}, st \in {StemA}, term \in BOOLEAN }
    \cup { [string |-> str, stem |-> st, terminal |-> term] :
        str \in {<<"a", "b">>}, st \in {StemA}, term \in BOOLEAN }
    \cup { [string |-> str, stem |-> st, terminal |-> term] :
        str \in {<<"b", "c">>}, st \in {StemB}, term \in BOOLEAN }
    \cup { [string |-> str, stem |-> st, terminal |-> term] :
        str \in {<<"x">>}, st \in {StemAB}, term \in BOOLEAN }

\* --------------------------------------------------------- weight tables
\* The module global `weights` is either unbound or bound to one table
Undefined == <<>>

Bound(table) == <<table>>

\* defaultdict(lambda: 1.0) tables: the stems listed have weight 0.0
WeightTables == { {}, {StemA} }

\* table[stem]
Lookup(table, stem) == IF stem \in table THEN 0 ELSE 1

\* ------------------------------------------------------------ MultiTag
\* MultiTag.__init__(tail): the seed wraps one Tag.  `at` records the
\* position in tags of the first constituent (the i of the generating loop).
MultiTagSeed(tail, i) ==
    [ string   |-> tail.string,
      stem     |-> StemOr(tail.stem, tail.string),
      rating   |-> tail.rating,
      size     |-> 1,
      terminal |-> tail.terminal,
      at       |-> i ]

\* MultiTag.__init__(tail, head): head extended by tail
MultiTagExtend(tail, head) ==
    [ string   |-> Join(<<head.string, tail.string>>),
      stem     |-> Join(<<head.stem, tail.stem>>),
      rating   |-> head.rating * tail.rating,
      size     |-> head.size + 1,
      terminal |-> tail.terminal,
      at       |-> head.at ]

RECURSIVE Pow(_, _)
Pow(b, e) == IF e = 0 THEN 1 ELSE b * Pow(b, e - 1)

\* MultiTag.__lt__ with the comparison turned round (ascending order)
MultiTagLtAscending(self, other) ==
    Pow(self.rating, other.size) < Pow(other.rating, self.size)

\* MultiTag.__lt__: self.rating ** (1.0 / self.size) > other.rating ** (1.0 / other.size).
\* Both ratings have denominator len(tags) ** size, so the roots compare as
\* the numerators raised to the other's size.
MultiTagLt(self, other) ==
    Pow(self.rating, other.size) > Pow(other.rating, self.size)

\* --------------------------------------------------------------- Rater
\* collections.Counter(list)[x] under Tag.__eq__
Count(list, stem) == Cardinality({k \in 1..Len(list) : list[k].stem = stem})

\* lines 209-211: every tag's rating becomes count / len(tags) * weights[stem]
RateTags(ts, table) ==
    [k \in 1..Len(ts) |->
        [ts[k] EXCEPT !.rating = Count(ts, ts[k].stem) * Lookup(table, ts[k].stem)]]

\* The j-loop running one step too far: range(1, self.multitag_size + 1)
ExtendRangeInclusive(K) == 1..K

\* The j-loop bound of line 217: range(1, self.multitag_size)
ExtendRange(K) == 1..(K - 1)

\* line 218 without the test of the terminal flag
MayExtendIgnoringTerminal(ts, i, j, t) == i + j <= Len(ts)

\* line 218: the chain is extended when the next tag exists and the chain
\* built so far is not terminal
MayExtend(ts, i, j, t) == i + j <= Len(ts) /\ ~t.terminal

\* lines 215-220 for one start position i (1-based): the seed followed by
\* its successive extensions
RECURSIVE Chain(_, _, _, _, _)
Chain(ts, K, i, j, t) ==
    IF j \notin ExtendRange(K) THEN <<>>
    ELSE IF MayExtend(ts, i, j, t)
         THEN LET t2 == MultiTagExtend(ts[i + j], t)
              IN <<t2>> \o Chain(ts, K, i, j + 1, t2)
         ELSE Chain(ts, K, i, j + 1, t)

RECURSIVE Generate(_, _, _)
Generate(ts, K, i) ==
    IF i > Len(ts) THEN <<>>
    ELSE LET t == MultiTagSeed(ts[i], i)
         IN <<t>> \o Chain(ts, K, i, 1, t) \o Generate(ts, K, i + 1)

\* set(multitags): one element per stem, the first one inserted
SetOf(list) ==
    { list[k] : k \in {m \in 1..Len(list) :
                        \A n \in 1..(m - 1) : list[n].stem # list[m].stem} }

\* set.discard(x): removes the element equal to x, if any
Discard(S, stem) == {u \in S : u.stem # stem}

\* line 227 measuring the stem instead of the surface
IsShortStem(t) == Len(t.stem) < MinStringLen

\* line 227: len(t.string) < 2
IsShort(t) == Len(t.string) < MinStringLen

\* The probe loops starting at the first word only
ProbeIndexesFirstOnly(n) == {<<i, j>> : i \in {0}, j \in 1..(n - 1)}

\* lines 232-234: the (i, j) pairs of the probe loops
ProbeIndexes(n) == {<<i, j>> : i \in 0..(n - 1), j \in 1..(n - 1)}

\* line 234 joining the words without the separator
SubtagStemUnspaced(words, i, j) ==
    LET RECURSIVE Cat(_)
        Cat(ws) == IF ws = <<>> THEN <<>> ELSE ws[1] \o Cat(Tail(ws))
    IN Cat(Slice(words, i, j))

\* line 234: Tag(' '.join(words[i:i + j])).stem
SubtagStem(words, i, j) ==
    LET s == Join(Slice(words, i, j)) IN StemOr(s, s)

\* line 236 with a strict comparison of the ratio
SubsumesStrict(t, ct, cs) == 2 * ct > cs /\ t.rating > 0

\* line 236: relative_freq >= 0.5 and t.rating > 0.0, relative_freq being
\* float(term_count[t]) / term_count[subtag] with term_count[subtag] > 0
Subsumes(t, ct, cs) == 2 * ct >= cs /\ t.rating > 0

\* lines 231-239 for one t: the stems discarded from unique_tags
Discarded(list, t) ==
    LET words == Split(t.stem)
        ct == Count(list, t.stem)
    IN { IF Subsumes(t, ct, Count(list, SubtagStem(words, p[1], p[2])))
         THEN SubtagStem(words, p[1], p[2])
         ELSE t.stem : p \in ProbeIndexes(Len(words)) }

\* line 235 divides by term_count[subtag]
DividesByZero(list, t) ==
    LET words == Split(t.stem)
    IN \E p \in ProbeIndexes(Len(words)) :
          Count(list, SubtagStem(words, p[1], p[2])) = 0

\* The iteration orders a set can have: every arrangement of its elements
Orders(S) ==
    {f \in [1..Cardinality(S) -> S] : \A x \in S : \E k \in DOMAIN f : f[k] = x}

\* sorted(): stable, placing x after every element it is not less than
InsertSorted(s, x) ==
    LET before == {k \in 1..Len(s) : MultiTagLt(x, s[k])}
        p == IF before = {} THEN Len(s) + 1
             ELSE CHOOSE k \in before : \A m \in before : k <= m
    IN SubSeq(s, 1, p - 1) \o <<x>> \o SubSeq(s, p, Len(s))

RECURSIVE SortedFrom(_, _, _)
SortedFrom(order, k, acc) ==
    IF k > Len(order) THEN acc
    ELSE SortedFrom(order, k + 1, InsertSorted(acc, order[k]))

Sorted(order) == SortedFrom(order, 1, <<>>)

\* tags[:n] of a Python list
Prefix(list, n) ==
    IF n >= 0 THEN SubSeq(list, 1, Min(n, Len(list)))
    ELSE SubSeq(list, 1, Len(list) + n)

\* ------------------------------------------------------------ the state
\* A Tag as the Reader and Stemmer leave it: rating has its default 1.0,
\* which is len(tags) in the model's unit.
Inputs ==
    UNION { [1..n -> {[string |-> u.string, stem |-> u.stem, rating |-> n,
                       terminal |-> u.terminal] : u \in TagPool}]
            : n \in 0..MaxTags }

Init ==
    /\ pc = "start"
    /\ err = ""
    /\ tags \in Inputs
    /\ weights \in {Bound(w) : w \in WeightTables} \cup {Undefined}
    /\ self_weights \in WeightTables
    /\ multitag_size \in 1..MaxK
    /\ multitags = <<>>
    /\ unique_tags = {}
    /\ idx = 0
    /\ result = <<>>
    /\ rerun = <<>>
    /\ tags_number = 0
    /\ out = <<>>

\* lines 207-211.  The loop body reads the module global `weights`; when
\* the module has none the first iteration raises NameError.
RateUnits ==
    /\ pc = "start"
    /\ tags = <<>> \/ weights # Undefined
    /\ tags' = IF tags = <<>> THEN tags ELSE RateTags(tags, weights[1])
    /\ pc' = "rated"
    /\ UNCHANGED <<err, weights, self_weights, multitag_size, multitags,
                   unique_tags, idx, result, rerun, tags_number, out>>

RateUnitsNameError ==
    /\ pc = "start"
    /\ tags # <<>> /\ weights = Undefined
    /\ pc' = "error"
    /\ err' = "NameError"
    /\ UNCHANGED <<tags, weights, self_weights, multitag_size, multitags,
                   unique_tags, idx, result, rerun, tags_number, out>>

\* lines 213-224
GenerateMultitags ==
    /\ pc = "rated"
    /\ multitags' = Generate(tags, multitag_size, 1)
    /\ unique_tags' = SetOf(multitags')
    /\ idx' = 1
    /\ pc' = "filtering"
    /\ UNCHANGED <<err, tags, weights, self_weights, multitag_size, result,
                   rerun, tags_number, out>>

\* lines 225-239, one iteration of `for t in multitags`
FilterStep ==
    /\ pc = "filtering"
    /\ idx <= Len(multitags)
    /\ LET t == multitags[idx] IN
         \/ /\ IsShort(t)
            /\ unique_tags' = Discard(unique_tags, t.stem)
            /\ idx' = idx + 1
            /\ UNCHANGED <<pc, err>>
         \/ /\ ~IsShort(t)
            /\ ~DividesByZero(multitags, t)
            /\ unique_tags' = {u \in unique_tags : u.stem \notin Discarded(multitags, t)}
            /\ idx' = idx + 1
            /\ UNCHANGED <<pc, err>>
         \/ /\ ~IsShort(t)
            /\ DividesByZero(multitags, t)
            /\ pc' = "error"
            /\ err' = "ZeroDivisionError"
            /\ UNCHANGED <<unique_tags, idx>>
    /\ UNCHANGED <<tags, weights, self_weights, multitag_size, multitags,
                   result, rerun, tags_number, out>>

\* line 241: sorted(unique_tags).  The iteration order of a set of objects
\* hashed by their stem string is not fixed by the program (it follows the
\* interpreter's string hash), so each run may see any order.
Sort ==
    /\ pc = "filtering"
    /\ idx > Len(multitags)
    /\ \E o1 \in Orders(unique_tags), o2 \in Orders(unique_tags) :
          /\ result' = Sorted(o1)
          /\ rerun' = Sorted(o2)
    /\ pc' = "returned"
    /\ UNCHANGED <<err, tags, weights, self_weights, multitag_size, multitags,
                   unique_tags, idx, tags_number, out>>

\* line 282: return tags[:tags_number]
TaggerReturn ==
    /\ pc = "returned"
    /\ \E n \in (-MaxN)..MaxN :
          /\ tags_number' = n
          /\ out' = Prefix(result, n)
    /\ pc' = "done"
    /\ UNCHANGED <<err, tags, weights, self_weights, multitag_size, multitags,
                   unique_tags, idx, result, rerun>>

Next ==
    \/ RateUnits
    \/ RateUnitsNameError
    \/ GenerateMultitags
    \/ FilterStep
    \/ Sort
    \/ TaggerReturn

Spec == Init /\ [][Next]_vars

\* ------------------------------------------------------------ properties
Returned == pc \in {"returned", "done"}

InResult(stem) == \E k \in 1..Len(result) : result[k].stem = stem

\* Every unit stem is one non-empty word without whitespace
SingleWordStems == \A k \in 1..Len(tags) : Split(tags[k].stem) = <<tags[k].stem>>

\* The contiguous proper sub-windows of n words: <<first, length>>
Windows(n) == {w \in (1..n) \X (1..(n - 1)) : w[1] + w[2] - 1 <= n}

WindowStem(words, w) == Join(SubSeq(words, w[1], w[1] + w[2] - 1))

\* The ratio test of the filtering pass, stated on the counts of the pool
RatioTest(t, s) ==
    2 * Count(multitags, t.stem) >= Count(multitags, s) /\ t.rating > 0

\* No unit tag is purged for its surface
NoShortSurface == \A k \in 1..Len(tags) : Len(tags[k].string) >= MinStringLen

\* C1 as stated, on inputs that the one-character purge leaves alone: for
\* every candidate t of size n >= 2 and every contiguous proper sub-window
\* s of its stem words, exactly one of t and s is in the
\* returned result: s is removed when count(t)/count(s) >= 0.5 and
\* t.rating > 0, otherwise t is removed, and the other one survives.
C1_ExactlyOneSurvives ==
    (Returned /\ SingleWordStems /\ NoShortSurface) =>
        \A k \in 1..Len(multitags) :
            LET t == multitags[k]
                words == Split(t.stem)
            IN t.size >= 2 =>
                 \A w \in Windows(Len(words)) :
                    LET s == WindowStem(words, w)
                    IN IF RatioTest(t, s)
                       THEN ~InResult(s) /\ InResult(t.stem)
                       ELSE ~InResult(t.stem) /\ InResult(s)

\* C1 amended: for every candidate t of size n >= 2 and every contiguous
\* proper sub-window s of its stem words, the member of the pair that the
\* ratio test designates is absent from the returned result: s when
\* count(t)/count(s) >= 0.5 and t.rating > 0, otherwise t.  The other member
\* is not guaranteed to survive.
C1_DesignatedMemberRemoved ==
    (Returned /\ SingleWordStems) =>
        \A k \in 1..Len(multitags) :
            LET t == multitags[k]
                words == Split(t.stem)
            IN t.size >= 2 =>
                 \A w \in Windows(Len(words)) :
                    LET s == WindowStem(words, w)
                    IN IF RatioTest(t, s)
                       THEN ~InResult(s)
                       ELSE ~InResult(t.stem)

\* A run that returned, in which one window passed the ratio test at exactly
\* 0.5 and another candidate failed it
C1_Witness ==
    /\ Returned /\ SingleWordStems
    /\ \E k \in 1..Len(multitags) :
          LET t == multitags[k]
              words == Split(t.stem)
          IN /\ t.size >= 2
             /\ \E w \in Windows(Len(words)) :
                   /\ RatioTest(t, WindowStem(words, w))
                   /\ 2 * Count(multitags, t.stem) = Count(multitags, WindowStem(words, w))
    /\ \E k \in 1..Len(multitags) :
          LET t == multitags[k]
              words == Split(t.stem)
          IN /\ t.size >= 2
             /\ \E w \in Windows(Len(words)) : ~RatioTest(t, WindowStem(words, w))

\* C2: every MultiTag of the candidate pool with size > 1 is made of the
\* consecutive tags starting at its first one, and none of them but the last
\* is terminal.
C2_NoSpanAcrossTerminal ==
    \A k \in 1..Len(multitags) :
        LET t == multitags[k]
        IN /\ t.at + t.size - 1 <= Len(tags)
           /\ t.string = Join([m \in 1..t.size |-> tags[t.at + m - 1].string])
           /\ t.size > 1 => \A m \in 0..(t.size - 2) : ~tags[t.at + m].terminal

\* A pool with a two-tag phrase that ends on a terminal tag, followed by a
\* further tag that multitag_size would have allowed in the chain
C2_Witness ==
    /\ pc = "filtering"
    /\ multitag_size >= 3
    /\ \E k \in 1..Len(multitags) :
          /\ multitags[k].size = 2
          /\ multitags[k].terminal
          /\ multitags[k].at + 2 <= Len(tags)

\* C3 as stated: Tagger.__call__(text, n) with n <= 0 returns the empty list.
C3_EmptyForNonPositive ==
    (pc = "done" /\ tags_number <= 0) => out = <<>>

\* C4: no tag of the returned list has a surface shorter than 2 characters.
C4_NoShortSurface ==
    Returned => \A k \in 1..Len(result) : Len(result[k].string) >= 2

\* A returned, non-empty list for an input where one stem has a surface of
\* one character and a surface of two
C4_Witness ==
    /\ Returned
    /\ result # <<>>
    /\ \E i, j \in 1..Len(tags) :
          /\ tags[i].stem = tags[j].stem
          /\ Len(tags[i].string) < 2
          /\ Len(tags[j].string) >= 2

\* C5: the returned list is in descending order of rating ** (1 / size):
\* each element's root is at least its successor's.
C5_DescendingScore ==
    Returned =>
        \A k \in 1..(Len(result) - 1) :
            Pow(result[k].rating, result[k + 1].size)
                >= Pow(result[k + 1].rating, result[k].size)

\* A returned list holding a phrase and a single word of different scores
C5_Witness ==
    /\ Returned
    /\ \E k \in 1..(Len(result) - 1) :
          /\ result[k].size # result[k + 1].size
          /\ Pow(result[k].rating, result[k + 1].size)
                > Pow(result[k + 1].rating, result[k].size)

\* C6: every candidate and every returned tag has a size between 1 and
\* multitag_size.
C6_SizeWithinLimit ==
    /\ \A k \in 1..Len(multitags) :
          multitags[k].size >= 1 /\ multitags[k].size <= multitag_size
    /\ \A k \in 1..Len(result) :
          result[k].size >= 1 /\ result[k].size <= multitag_size

\* multitag_size = 1 on an input whose first tag could have been extended
C6_Witness ==
    /\ Returned
    /\ multitag_size = 1
    /\ Len(tags) >= 2
    /\ ~tags[1].terminal
    /\ result # <<>>

\* C7 as stated: after the unit rating pass every tag's rating is
\* (count / len(tags)) * weight, the weight being that of the table given to
\* the Rater instance.
C7_RatingFromOwnTable ==
    pc = "rated" =>
        \A k \in 1..Len(tags) :
            tags[k].rating = Count(tags, tags[k].stem) * Lookup(self_weights, tags[k].stem)

\* C8 as stated: two runs on the same input return the same list, ties
\* included.
C8_SameSequence ==
    Returned => result = rerun

\* C9: when every unit stem is a single word, every stem probed by the
\* filtering pass is a candidate of the pool, occurring at least as often as
\* the phrase it is probed for, which occurs at least once; the division
\* never fails.
C9_ProbedStemCounted ==
    SingleWordStems =>
        /\ err # "ZeroDivisionError"
        /\ \A k \in 1..Len(multitags) :
              LET t == multitags[k]
                  words == Split(t.stem)
                  n == Len(words)
              IN \A i \in 0..(n - 1), j \in 1..(n - 1) :
                    LET s == Join(Slice(words, i, j))
                    IN /\ Count(multitags, t.stem) >= 1
                       /\ Count(multitags, s) >= Count(multitags, t.stem)

\* The filtering pass went over a pool holding a three-word phrase
C9_Witness ==
    /\ SingleWordStems
    /\ Returned
    /\ \E k \in 1..Len(multitags) :
          multitags[k].size = 3 /\ ~IsShort(multitags[k])

\* C10: the returned list never holds both a multi-word tag and a tag whose
\* stem is a contiguous proper sub-sequence of its words.
C10_NeverBoth ==
    Returned =>
        \A a \in 1..Len(result) :
            LET words == Split(result[a].stem)
            IN \A w \in Windows(Len(words)) :
                  ~InResult(WindowStem(words, w))

\* A returned list holding a multi-word tag
C10_Witness ==
    /\ Returned
    /\ \E a \in 1..Len(result) : Len(Split(result[a].stem)) >= 2

====
